---- MODULE Spec2Model ----
(***************************************************************************)
(* A model of the dtn7 node: the BundlePack / BundleItem constraint        *)
(* bookkeeping (package core, package storage), the DTLSR routing          *)
(* algorithm (core/routing_dtlsr.go), the MTCP client (cla/mtcp/client.go) *)
(* and the web agent client (package agent).                               *)
(*                                                                         *)
(* The specifications share the variables:                                 *)
(*   SpecPack    - bundle packs working on the bundle store;               *)
(*   Spec        - the DTLSR router as the node runs it: the core and the  *)
(*                 cron jobs each hold a copy of the DTLSR struct, every   *)
(*                 method has a value receiver, so only what a method      *)
(*                 writes through a map survives its return;               *)
(*   SpecSender  - SenderForBundle on a struct with any routing table;     *)
(*   SpecCompute - computeRoutingTable on a struct with any consistent     *)
(*                 node index, peer data and clock;                        *)
(*   SpecBroadcast - broadcast on the struct the core holds, between the   *)
(*                 events that change the own peers map;                   *)
(*   SpecMTCP    - the MTCP client with its goroutines (SpecMTCPFair: under *)
(*                 fair scheduling);                                       *)
(*   SpecAgent   - a web agent client serving its connection               *)
(*                 (SpecAgentFair: under fair scheduling);                 *)
(*   SpecAge     - UpdateBundleAge on a pack as time passes.               *)
(***************************************************************************)
EXTENDS Integers, Sequences, FiniteSets, TLC

VARIABLES
    \* ---- package storage / BundlePack
    store,          \* the bundle store: scrubbed id -> BundleItem
    packs,          \* the BundlePacks alive in memory: slot -> BundlePack
    packOp,         \* the last BundlePack / store operation and its result
    \* ---- DTLSR: the value fields of the copy the core holds
    routingTable,   \* DTLSR.routingTable
    peerChange,     \* DTLSR.peerChange
    receivedChange, \* DTLSR.receivedChange
    indexNode,      \* DTLSR.indexNode
    length,         \* DTLSR.length
    peersTimestamp, \* DTLSR.peers.timestamp
    \* ---- DTLSR: the maps, shared by every copy of the struct
    peersPeers,     \* DTLSR.peers.peers
    receivedData,   \* DTLSR.receivedData
    nodeIndex,      \* DTLSR.nodeIndex
    \* ---- environment and observation
    now,            \* the UNIX time timestampNow() returns
    lastOp,         \* the last router operation, its input and what it returned
    post,           \* the method's own copy of the struct when it returned
    seenMax,        \* history: origin -> largest timestamp received so far
    pending,        \* history: what changed since the last broadcast / recompute
    emitted,        \* history: the metadata block of the last broadcast, if any
    \* ---- MTCPClient
    conn,           \* client.conn: "nil", "open" or "closed"
    link,           \* the TCP connection as the network has it: "up" or "down"
    mutex,          \* client.mutex: "free" or the goroutine holding it
    stopSyn,        \* whether the channel client.stopSyn is closed
    stopAck,        \* how often client.stopAck was closed
    kpPc,           \* where the keepaliveProbe goroutine stands
    kpErr,          \* err of the last keepalive probe write
    sendPc,         \* goroutine -> where its Send call stands
    sendBig,        \* goroutine -> whether its frame exceeds the bufio buffer
    sendErr,        \* goroutine -> the err its Send call has to return
    closePc,        \* where the Close call stands
    startOut,       \* what the last Start call returned
    sendOut,        \* what the last Send call returned
    stream,         \* history: what was written to the connection, in order
    sendCalls,      \* history: number of Send calls made
    probes,         \* history: number of keepalive timers that fired
    \* ---- webAgentClient
    wcEndpoint,     \* client.endpoint
    wcPc,           \* where handleConn ("hc") and handleReceiver ("hr") stand
    wcOnce,         \* client.shutdownOnce: "fresh", "running" or "done"
    wcCloses,       \* how often receiver, sender and conn were closed
    wcSent,         \* history: the Status messages written to the connection
    wcOut,          \* the last message handleConn read (the n-th) and how it went
    wcEps,          \* what the last call of Endpoints() returned
    \* ---- BundlePack.UpdateBundleAge
    baTime,         \* time.Now(), in nanoseconds
    baPack,         \* the pack: its Timestamp and whether bp.bndl is set
    baLoad,         \* how the store answers Bundle(): "ok", "queryErr", "loadErr"
    baBlock,        \* the bundle's Bundle Age block, if it has one, and its age
    baInit,         \* history: the age the bundle arrived with
    baOut           \* the last UpdateBundleAge call: when, and what it returned

packVars == <<store, packs, packOp>>
heldVars == <<routingTable, peerChange, receivedChange, indexNode, length, peersTimestamp>>
mapVars == <<peersPeers, receivedData, nodeIndex>>
routeVars == <<heldVars, mapVars, now, lastOp, post, seenMax, pending, emitted>>
mtcpVars ==
    <<conn, link, mutex, stopSyn, stopAck, kpPc, kpErr, sendPc, sendBig,
      sendErr, closePc, startOut, sendOut, stream, sendCalls, probes>>
agentVars == <<wcEndpoint, wcPc, wcOnce, wcCloses, wcSent, wcOut, wcEps>>
ageVars == <<baTime, baPack, baLoad, baBlock, baInit, baOut>>
cliVars == <<mtcpVars, agentVars, ageVars>>
vars == <<packVars, routeVars, cliVars>>

(***************************************************************************)
(* Helpers on finite maps (functions with a finite domain).                *)
(***************************************************************************)
EmptyMap == <<>>

MapPut(m, k, v) == [x \in DOMAIN m \cup {k} |-> IF x = k THEN v ELSE m[x]]

MapDelete(m, k) == [x \in DOMAIN m \ {k} |-> m[x]]

Range(f) == {f[x] : x \in DOMAIN f}

(***************************************************************************)
(* Bounds of the model.                                                    *)
(***************************************************************************)
\* number of BundlePack values alive at once
MaxPacks == 1

\* the scrubbed ids of the bundles
BundleIds == {"dtn:n1-0-0"}
PackSlots == 1..MaxPacks

(***************************************************************************)
(* BundlePack and BundleItem.                                              *)
(***************************************************************************)
\* the Constraint values of package core
Constraints ==
    {"DispatchPending", "ForwardPending", "Contraindicated",
     "ReassemblyPending", "LocalEndpoint"}

DtnNone == "dtn:none"

\* newBundleItem: Pending is false, Properties is an empty map
newBundleItem(id) ==
    [Id |-> id, Pending |-> FALSE, Properties |-> EmptyMap]

\* Store.QueryId: the item, when there is one
QueryIdOk(id) == id \in DOMAIN store

\* Store.Push: a new item for an unknown id; a known id only gains a part
StorePush(st, id) ==
    IF id \in DOMAIN st THEN st ELSE MapPut(st, id, newBundleItem(id))

\* NewBundlePack: a fresh pack, overwritten by what the store holds for the id
NewBundlePackValue(st, id) ==
    LET fresh == [Id |-> id, Receiver |-> DtnNone, Timestamp |-> now,
                  Constraints |-> {}]
        props == st[id].Properties
    IN  IF id \notin DOMAIN st THEN fresh
        ELSE [Id |-> id,
              Receiver |-> IF "bundlepack/receiver" \in DOMAIN props
                           THEN props["bundlepack/receiver"] ELSE fresh.Receiver,
              Timestamp |-> IF "bundlepack/timestamp" \in DOMAIN props
                            THEN props["bundlepack/timestamp"] ELSE fresh.Timestamp,
              Constraints |-> IF "bundlepack/constraints" \in DOMAIN props
                              THEN props["bundlepack/constraints"]
                              ELSE fresh.Constraints]

HasConstraint(bp, c) == c \in bp.Constraints

HasConstraints(bp) == bp.Constraints # {}

\* a plausible slip: Sync forgets the ReassemblyPending exclusion
SyncPendingNoReassembly(bp) ==
    HasConstraint(bp, "ForwardPending") \/ HasConstraint(bp, "Contraindicated")

\* the value Sync gives bi.Pending
SyncPending(bp) ==
    /\ ~HasConstraint(bp, "ReassemblyPending")
    /\ (HasConstraint(bp, "ForwardPending") \/ HasConstraint(bp, "Contraindicated"))

\* the BundleItem Sync hands to Store.Update
SyncItem(bi, bp) ==
    [bi EXCEPT
        !.Pending = SyncPending(bp),
        !.Properties =
            MapPut(MapPut(MapPut(bi.Properties,
                "bundlepack/receiver", bp.Receiver),
                "bundlepack/timestamp", bp.Timestamp),
                "bundlepack/constraints", bp.Constraints)]

\* a plausible slip: PurgeConstraints removes LocalEndpoint as well
PurgedOfAll(cs) == {}

\* PurgeConstraints: every constraint but LocalEndpoint is removed
PurgedConstraints(cs) == {c \in cs : c = "LocalEndpoint"}

(***************************************************************************)
(* Actions of SpecPack.                                                    *)
(***************************************************************************)
NewBundlePack(slot, id) ==
    /\ UNCHANGED <<routeVars, cliVars>>
    /\ packs' = MapPut(packs, slot, NewBundlePackValue(store, id))
    /\ packOp' = [op |-> "NewBundlePack", slot |-> slot, ok |-> TRUE]
    /\ UNCHANGED store

NewBundlePackFromBundle(slot, id) ==
    /\ UNCHANGED <<routeVars, cliVars>>
    /\ store' = StorePush(store, id)
    /\ packs' = MapPut(packs, slot, NewBundlePackValue(StorePush(store, id), id))
    /\ packOp' = [op |-> "NewBundlePackFromBundle", slot |-> slot, ok |-> TRUE]

AddConstraint(slot, c) ==
    /\ UNCHANGED <<routeVars, cliVars>>
    /\ slot \in DOMAIN packs
    /\ packs' = [packs EXCEPT ![slot].Constraints = @ \cup {c}]
    /\ packOp' = [op |-> "AddConstraint", slot |-> slot, ok |-> TRUE]
    /\ UNCHANGED store

RemoveConstraint(slot, c) ==
    /\ UNCHANGED <<routeVars, cliVars>>
    /\ slot \in DOMAIN packs
    /\ packs' = [packs EXCEPT ![slot].Constraints = @ \ {c}]
    /\ packOp' = [op |-> "RemoveConstraint", slot |-> slot, ok |-> TRUE]
    /\ UNCHANGED store

PurgeConstraints(slot) ==
    /\ UNCHANGED <<routeVars, cliVars>>
    /\ slot \in DOMAIN packs
    /\ packs' = [packs EXCEPT ![slot].Constraints = PurgedConstraints(@)]
    /\ packOp' = [op |-> "PurgeConstraints", slot |-> slot, ok |-> TRUE,
                  before |-> packs[slot].Constraints]
    /\ UNCHANGED store

Sync(slot) ==
    /\ UNCHANGED <<routeVars, cliVars>>
    /\ slot \in DOMAIN packs
    /\ LET bp == packs[slot]
       IN  IF QueryIdOk(bp.Id)
           THEN /\ store' = MapPut(store, bp.Id, SyncItem(store[bp.Id], bp))
                /\ packOp' = [op |-> "Sync", slot |-> slot, ok |-> TRUE]
           ELSE /\ store' = store
                /\ packOp' = [op |-> "Sync", slot |-> slot, ok |-> FALSE]
    /\ UNCHANGED packs

\* Store.Delete
StoreDelete(id) ==
    /\ UNCHANGED <<routeVars, cliVars>>
    /\ id \in DOMAIN store
    /\ store' = MapDelete(store, id)
    /\ packOp' = [op |-> "Delete", slot |-> 0, ok |-> TRUE]
    /\ UNCHANGED packs

(***************************************************************************)
(* DTLSR: endpoints, time and the struct.                                  *)
(***************************************************************************)
\* the last UNIX second the clock reaches
MaxTime == 2
\* number of convergence senders the CL manager holds
MaxSenders == 2
\* DTLSRConfig.PurgeTime, in seconds
PurgeTime == 0

BroadcastAddress == "dtn:broadcast"

\* c.NodeId, the own node
NodeId == "dtn:n0"

\* the other nodes of the network
Others == {"dtn:n1", "dtn:n2"}
Endpoints == {NodeId} \cup Others

\* timestampNow() at construction
StartTime == 1

\* the struct a method works on: the value fields and what the maps hold
Held ==
    [routingTable |-> routingTable, peerChange |-> peerChange,
     receivedChange |-> receivedChange, indexNode |-> indexNode,
     length |-> length, peersTimestamp |-> peersTimestamp,
     peersPeers |-> peersPeers, receivedData |-> receivedData,
     nodeIndex |-> nodeIndex]

\* NewDTLSR: the struct it builds and returns
NewDTLSR ==
    [routingTable |-> EmptyMap, peerChange |-> FALSE,
     receivedChange |-> FALSE, indexNode |-> <<NodeId>>,
     length |-> 1, peersTimestamp |-> StartTime,
     peersPeers |-> EmptyMap, receivedData |-> EmptyMap,
     nodeIndex |-> [e \in {NodeId} |-> 0]]

\* A method with a value receiver works on a copy of the caller's struct:
\* when it returns, the caller's struct has its own value fields and sees
\* what the callee wrote through the maps both copies point to.
ValueReceiver(caller, callee) ==
    [caller EXCEPT
        !.peersPeers = callee.peersPeers,
        !.receivedData = callee.receivedData,
        !.nodeIndex = callee.nodeIndex]

\* the value fields of a struct
ValueFields(d) ==
    [routingTable |-> d.routingTable, peerChange |-> d.peerChange,
     receivedChange |-> d.receivedChange, indexNode |-> d.indexNode,
     length |-> d.length, peersTimestamp |-> d.peersTimestamp]

\* indexNode is a Go slice, indexed from 0
IndexNodeAt(d, i) == d.indexNode[i + 1]

\* a lookup in nodeIndex; a missing key reads as the zero value
NodeIndexOf(d, e) == IF e \in DOMAIN d.nodeIndex THEN d.nodeIndex[e] ELSE 0

\* a plausible slip: an older record replaces a newer one
isOlderThan(pd, other) == pd.timestamp < other.timestamp

\* a plausible slip: a record of the same age replaces the stored one
isNotOlderThan(pd, other) == pd.timestamp >= other.timestamp

isNewerThan(pd, other) == pd.timestamp > other.timestamp

\* newNode: the struct of newNode's own copy when it returns
newNode(d, id) ==
    IF id \in DOMAIN d.nodeIndex
    THEN d
    ELSE [d EXCEPT
            !.nodeIndex = MapPut(@, id, d.length),
            !.indexNode = Append(@, id),
            !.length = @ + 1]

\* "for node := range data.peers { dtlsr.newNode(node) }"
RECURSIVE TrackNodes(_, _)
TrackNodes(d, nodes) ==
    IF nodes = {}
    THEN d
    ELSE LET node == CHOOSE x \in nodes : TRUE
         IN  TrackNodes(ValueReceiver(d, newNode(d, node)), nodes \ {node})

\* NotifyIncoming for a bundle carrying the routing-metadata block data
NotifyIncomingBody(d, data) ==
    IF data.id \notin DOMAIN d.receivedData
    THEN LET d1 == [d EXCEPT !.receivedData = MapPut(@, data.id, data),
                             !.receivedChange = TRUE]
             d2 == ValueReceiver(d1, newNode(d1, data.id))
         IN  TrackNodes(d2, DOMAIN data.peers)
    ELSE IF isNewerThan(data, d.receivedData[data.id])
         THEN LET d1 == [d EXCEPT !.receivedData = MapPut(@, data.id, data),
                                  !.receivedChange = TRUE]
              IN  TrackNodes(d1, DOMAIN data.peers)
         ELSE d

ReportPeerAppearedBody(d, peerID) ==
    LET d1 == ValueReceiver(d, newNode(d, peerID))
    IN  [d1 EXCEPT !.peersPeers = MapPut(@, peerID, 0),
                   !.peersTimestamp = now,
                   !.peerChange = TRUE]

ReportPeerDisappearedBody(d, peerID) ==
    [d EXCEPT !.peersPeers = MapPut(@, peerID, now),
              !.peersTimestamp = now,
              !.peerChange = TRUE]

\* a plausible slip: a send failure is taken for the loss of the peer
ReportFailureDropsPeer(d, bp, cs) ==
    [d EXCEPT !.peersPeers = MapPut(@, cs.peer, now), !.peerChange = TRUE]

\* ReportFailure: "there is really nothing to do"
ReportFailureBody(d, bp, cs) == d

\* purgePeers: disconnected peers older than purgeTime are deleted
purgePeersBody(d) ==
    LET stale == {p \in DOMAIN d.peersPeers :
                    d.peersPeers[p] # 0 /\ now > d.peersPeers[p] + PurgeTime}
    IN  [d EXCEPT
            !.peersPeers = [p \in DOMAIN @ \ stale |-> @[p]],
            !.peerChange = IF stale # {} THEN TRUE ELSE @]

(***************************************************************************)
(* computeRoutingTable and the shortest-path routine it calls.             *)
(***************************************************************************)
\* int64(currentTime - timestamp): the unsigned difference read as a signed
\* number, which is the signed difference for all times of the model
EdgeCost(currentTime, timestamp) ==
    IF timestamp = 0 THEN 0 ELSE currentTime - timestamp

\* the arcs handed to graph.AddArc for the own peers
OwnArcs(d) ==
    {[src |-> 0, dst |-> NodeIndexOf(d, peer),
      cost |-> EdgeCost(now, d.peersPeers[peer])] : peer \in DOMAIN d.peersPeers}

\* the arcs handed to graph.AddArc for the received peer data
ReceivedArcs(d) ==
    UNION {{[src |-> NodeIndexOf(d, d.receivedData[o].id),
             dst |-> NodeIndexOf(d, peer),
             cost |-> EdgeCost(now, d.receivedData[o].peers[peer])] :
                peer \in DOMAIN d.receivedData[o].peers} :
           o \in DOMAIN d.receivedData}

\* graph.AddArc fails for a vertex that was not added (0..length-1 were)
AddArcFails(d, arc) == arc.src >= d.length \/ arc.dst >= d.length

ArcCost(arcs, u, v) ==
    LET cs == {a.cost : a \in {b \in arcs : b.src = u /\ b.dst = v}}
    IN  CHOOSE c \in cs : \A c2 \in cs : c <= c2

\* the paths without a repeated vertex from u to dst, avoiding seen
RECURSIVE PathsFrom(_, _, _, _)
PathsFrom(arcs, u, dst, seen) ==
    IF u = dst
    THEN {<<u>>}
    ELSE UNION {{<<u>> \o p : p \in PathsFrom(arcs, a.dst, dst, seen \cup {u})} :
                a \in {b \in arcs : b.src = u /\ b.dst \notin seen \cup {u}}}

RECURSIVE PathCost(_, _)
PathCost(arcs, p) ==
    IF Len(p) < 2 THEN 0
    ELSE ArcCost(arcs, p[1], p[2]) + PathCost(arcs, Tail(p))

\* graph.Shortest(src, dst): an error when there is no path, else a path of
\* least cost, which starts with src and ends with dst
Shortest(arcs, src, dst) ==
    LET paths == PathsFrom(arcs, src, dst, {})
    IN  IF paths = {}
        THEN [err |-> TRUE, Path |-> <<>>]
        ELSE [err |-> FALSE,
              Path |-> CHOOSE p \in paths :
                          \A q \in paths : PathCost(arcs, p) <= PathCost(arcs, q)]

\* "for i := 1; i < dtlsr.length; i++ { ... }"
RECURSIVE FillRoutingTable(_, _, _, _)
FillRoutingTable(d, arcs, i, table) ==
    IF i >= d.length
    THEN table
    ELSE LET shortest == Shortest(arcs, 0, i)
         IN  FillRoutingTable(d, arcs, i + 1,
                IF shortest.err
                THEN table
                ELSE MapPut(table, IndexNodeAt(d, 0),
                            IndexNodeAt(d, shortest.Path[1])))

\* a plausible slip: the table is filled from the own peers map, each direct
\* peer being its own next hop, without going through the node index
computeRoutingTableFromPeers(d) ==
    [d EXCEPT !.routingTable = [p \in DOMAIN d.peersPeers |-> p]]

\* computeRoutingTable: the struct of its own copy when it returns
computeRoutingTableBody(d) ==
    LET arcs == OwnArcs(d) \cup ReceivedArcs(d)
    IN  IF \E a \in arcs : AddArcFails(d, a)
        THEN d
        ELSE [d EXCEPT !.routingTable = FillRoutingTable(d, arcs, 1, EmptyMap)]

recomputeCronBody(d) ==
    IF d.peerChange \/ d.receivedChange
    THEN [ValueReceiver(d, computeRoutingTableBody(d)) EXCEPT
            !.receivedChange = FALSE]
    ELSE d

\* broadcast: the routing-metadata block of the bundle handed to SendBundle
BroadcastBlock(d) ==
    [id |-> NodeId, timestamp |-> d.peersTimestamp, peers |-> d.peersPeers]

\* a plausible slip: the broadcast tick does not look at peerChange
broadcastCronAlways(d) == TRUE

\* whether broadcastCron calls broadcast
broadcastCronEmits(d) == d.peerChange

broadcastCronBody(d) ==
    IF broadcastCronEmits(d)
    THEN [d EXCEPT !.peerChange = FALSE, !.receivedChange = TRUE]
    ELSE d

(***************************************************************************)
(* SenderForBundle.                                                        *)
(***************************************************************************)
\* the convergence senders of a snapshot whose peer is the forwarder
Matching(snapshot, forwarder) ==
    {i \in 1..Len(snapshot) : snapshot[i].peer = forwarder}

Min(S) == CHOOSE x \in S : \A y \in S : x <= y

\* a plausible slip: every matching sender is returned, not the first only
RECURSIVE SelectAll(_, _)
SelectAll(snapshot, forwarder) ==
    IF snapshot = <<>> THEN <<>>
    ELSE (IF Head(snapshot).peer = forwarder THEN <<Head(snapshot)>> ELSE <<>>)
         \o SelectAll(Tail(snapshot), forwarder)

\* "for _, cs := range Sender() { if cs.GetPeerEndpointID() == forwarder {
\*  sender = append(sender, cs); return } }"
SelectSender(snapshot, forwarder) ==
    IF Matching(snapshot, forwarder) = {}
    THEN <<>>
    ELSE <<snapshot[Min(Matching(snapshot, forwarder))]>>

\* a plausible slip: a broadcast bundle is routed like any other bundle
IsBroadcastNever(dest) == FALSE

IsBroadcast(dest) == dest = BroadcastAddress

SenderForBundleResult(d, dest, snapshot) ==
    IF IsBroadcast(dest)
    THEN [sender |-> snapshot, delete |-> FALSE]
    ELSE IF dest \notin DOMAIN d.routingTable
         THEN [sender |-> <<>>, delete |-> FALSE]
         ELSE [sender |-> SelectSender(snapshot, d.routingTable[dest]),
               delete |-> FALSE]

(***************************************************************************)
(* Inputs.                                                                 *)
(***************************************************************************)
\* the peers map of a received record: no peer, or one connected peer
PeerMaps(id) ==
    {EmptyMap} \cup {[p \in {e} |-> 0] : e \in Endpoints \ {id}}

\* the peerData a received routing-metadata block decodes to
IncomingData ==
    UNION {{[id |-> o, timestamp |-> ts, peers |-> pm] :
                ts \in 1..MaxTime, pm \in PeerMaps(o)} : o \in Others}

\* a convergence sender: its address and GetPeerEndpointID()
SenderSet == {[address |-> a, peer |-> p] : a \in 1..MaxSenders, p \in Others}

\* what claManager.Sender() may return: each address at most once
Snapshots ==
    {s \in UNION {[1..n -> SenderSet] : n \in 0..MaxSenders} :
        \A i, j \in DOMAIN s : i # j => s[i].address # s[j].address}

Destinations == Others \cup {BroadcastAddress}

NoOp == [op |-> "none", in |-> <<>>, out |-> <<>>]

(***************************************************************************)
(* The router's operations. Every DTLSR method has a value receiver: it    *)
(* runs on a copy of the struct of its caller (the core's routing value,   *)
(* or the method value cron holds), so the value fields it assigns are     *)
(* those of the copy, which is dropped at the return (post records it),    *)
(* while what it writes through the maps stays.                            *)
(***************************************************************************)
Returns(d) ==
    /\ peersPeers' = d.peersPeers
    /\ receivedData' = d.receivedData
    /\ nodeIndex' = d.nodeIndex
    /\ post' = ValueFields(d)
    /\ UNCHANGED heldVars

NotifyIncoming ==
    \E data \in IncomingData :
        LET d == NotifyIncomingBody(Held, data)
        IN  /\ Returns(d)
            /\ lastOp' = [op |-> "NotifyIncoming",
                          in |-> [id |-> data.id, timestamp |-> data.timestamp],
                          out |-> d.receivedData # receivedData]
            /\ seenMax' = MapPut(seenMax, data.id,
                            IF data.id \in DOMAIN seenMax /\ seenMax[data.id] > data.timestamp
                            THEN seenMax[data.id] ELSE data.timestamp)
            /\ pending' = IF d.receivedData # receivedData
                          THEN [pending EXCEPT !.change = TRUE] ELSE pending
            /\ UNCHANGED <<now, emitted, packVars, cliVars>>

ReportPeerAppeared ==
    \E peerID \in Others :
        /\ Returns(ReportPeerAppearedBody(Held, peerID))
        /\ lastOp' = [op |-> "ReportPeerAppeared", in |-> peerID, out |-> <<>>]
        /\ pending' = [peerEvent |-> TRUE, change |-> TRUE]
        /\ UNCHANGED <<now, seenMax, emitted, packVars, cliVars>>

ReportPeerDisappeared ==
    \E peerID \in Others :
        /\ Returns(ReportPeerDisappearedBody(Held, peerID))
        /\ lastOp' = [op |-> "ReportPeerDisappeared", in |-> peerID, out |-> <<>>]
        /\ pending' = [peerEvent |-> TRUE, change |-> TRUE]
        /\ UNCHANGED <<now, seenMax, emitted, packVars, cliVars>>

ReportFailure ==
    \E bp \in BundleIds, cs \in SenderSet :
        /\ Returns(ReportFailureBody(Held, bp, cs))
        /\ lastOp' = [op |-> "ReportFailure", in |-> cs.peer, out |-> <<>>]
        /\ UNCHANGED <<now, seenMax, pending, emitted, packVars, cliVars>>

SenderForBundle ==
    \E dest \in Destinations, snapshot \in Snapshots :
        /\ Returns(Held)
        /\ lastOp' = [op |-> "SenderForBundle",
                      in |-> [dest |-> dest, snapshot |-> snapshot],
                      out |-> SenderForBundleResult(Held, dest, snapshot)]
        /\ UNCHANGED <<now, seenMax, pending, emitted, packVars, cliVars>>

\* the cron job "dtlsr_recompute"
recomputeCron ==
    /\ Returns(recomputeCronBody(Held))
    /\ lastOp' = [op |-> "recomputeCron", in |-> pending.change,
                  out |-> Held.peerChange \/ Held.receivedChange]
    /\ pending' = [pending EXCEPT !.change = FALSE]
    /\ UNCHANGED <<now, seenMax, emitted, packVars, cliVars>>

\* the cron job "dtlsr_broadcast"
broadcastCron ==
    /\ Returns(broadcastCronBody(Held))
    /\ lastOp' = [op |-> "broadcastCron", in |-> pending.peerEvent,
                  out |-> IF broadcastCronEmits(Held)
                          THEN <<BroadcastBlock(Held)>> ELSE <<>>]
    /\ pending' = [pending EXCEPT !.peerEvent = FALSE]
    /\ emitted' = IF broadcastCronEmits(Held)
                  THEN <<BroadcastBlock(Held)>> ELSE emitted
    /\ UNCHANGED <<now, seenMax, packVars, cliVars>>

\* broadcast, called on the struct as it is
broadcast ==
    /\ Returns(Held)
    /\ lastOp' = [op |-> "broadcast", in |-> emitted,
                  out |-> <<BroadcastBlock(Held)>>]
    /\ emitted' = <<BroadcastBlock(Held)>>
    /\ UNCHANGED <<now, seenMax, pending, packVars, cliVars>>

\* the cron job "dtlsr_purge"
purgePeers ==
    /\ Returns(purgePeersBody(Held))
    /\ lastOp' = [op |-> "purgePeers", in |-> <<>>,
                  out |-> DOMAIN peersPeers \ DOMAIN purgePeersBody(Held).peersPeers]
    /\ UNCHANGED <<now, seenMax, pending, emitted, packVars, cliVars>>

\* computeRoutingTable, called on the struct as it is
computeRoutingTable ==
    /\ Returns(computeRoutingTableBody(Held))
    /\ lastOp' = [op |-> "computeRoutingTable", in |-> <<>>, out |-> <<>>]
    /\ UNCHANGED <<now, seenMax, pending, emitted, packVars, cliVars>>

\* a second passes
Tick ==
    /\ now < MaxTime
    /\ now' = now + 1
    /\ lastOp' = [op |-> "Tick", in |-> <<>>, out |-> <<>>]
    /\ UNCHANGED <<heldVars, mapVars, post, seenMax, pending, emitted, packVars, cliVars>>

(***************************************************************************)
(* MTCPClient (cla/mtcp/client.go): the goroutines calling Send, the       *)
(* keepaliveProbe goroutine Start spawns, and the call of Close.           *)
(***************************************************************************)
\* number of Send calls made on the client
MaxSendCalls == 2
\* number of keepalive timers that fire
MaxProbes == 2

\* the goroutines that call Send
Threads == {"t1", "t2"}

\* NewMTCPClient: no connection, both channels open, nothing running
ClientIdle ==
    /\ conn = "nil"
    /\ link = "up"
    /\ mutex = "free"
    /\ stopSyn = FALSE
    /\ stopAck = 0
    /\ kpPc = "none"
    /\ kpErr = FALSE
    /\ sendPc = [t \in Threads |-> "idle"]
    /\ sendBig = [t \in Threads |-> FALSE]
    /\ sendErr = [t \in Threads |-> "none"]
    /\ closePc = "idle"
    /\ startOut = [op |-> "none"]
    /\ sendOut = [op |-> "none"]
    /\ stream = <<>>
    /\ sendCalls = 0
    /\ probes = 0

\* a plausible slip: the writers do not wait for the mutex
LockNeverWaits(m) == TRUE

\* client.mutex.Lock() goes through when the mutex is free
LockAcquires(m) == m = "free"

\* a Write on client.conn succeeds on an open connection whose link is up
WriteSucceeds == conn = "open" /\ link = "up"

\* a plausible slip: the deferred function recovers from the panic and leaves
\* err as it is
WriteErrPanicDropped ==
    IF WriteSucceeds \/ conn = "nil" THEN "none" ELSE "io"

\* the err of a Write on client.conn: none, an I/O error of the connection,
\* or the panic of a Write on the nil connection, which Send recovers from
WriteErr ==
    IF WriteSucceeds THEN "none" ELSE IF conn = "nil" THEN "panic" ELSE "io"

\* Start: DialTimeout, on success the connection is kept and the keepalive
\* goroutine is spawned; the second result is true in either case
Start ==
    /\ conn = "nil"
    /\ \E dialed \in {d \in BOOLEAN : d => link = "up"} :
        /\ conn' = IF dialed THEN "open" ELSE conn
        /\ kpPc' = IF dialed THEN "select" ELSE kpPc
        /\ startOut' = [op |-> "Start", err |-> ~dialed, retry |-> TRUE]
    /\ UNCHANGED <<link, mutex, stopSyn, stopAck, kpErr, sendPc, sendBig,
                   sendErr, closePc, sendOut, stream, sendCalls, probes>>
    /\ UNCHANGED <<packVars, routeVars, agentVars, ageVars>>

\* keepaliveProbe, "case <-client.stopSyn:"
kpStopSyn ==
    /\ kpPc = "select"
    /\ stopSyn
    /\ kpPc' = "closeConn"
    /\ UNCHANGED <<conn, link, mutex, stopSyn, stopAck, kpErr, sendPc, sendBig,
                   sendErr, closePc, startOut, sendOut, stream, sendCalls, probes>>
    /\ UNCHANGED <<packVars, routeVars, agentVars, ageVars>>

\* keepaliveProbe, "case <-time.After(client.keepalive):"
kpTimer ==
    /\ kpPc = "select"
    /\ probes < MaxProbes
    /\ probes' = probes + 1
    /\ kpPc' = "lock"
    /\ UNCHANGED <<conn, link, mutex, stopSyn, stopAck, kpErr, sendPc, sendBig,
                   sendErr, closePc, startOut, sendOut, stream, sendCalls>>
    /\ UNCHANGED <<packVars, routeVars, agentVars, ageVars>>

kpLock ==
    /\ kpPc = "lock"
    /\ LockAcquires(mutex)
    /\ mutex' = "kp"
    /\ kpPc' = "write"
    /\ UNCHANGED <<conn, link, stopSyn, stopAck, kpErr, sendPc, sendBig,
                   sendErr, closePc, startOut, sendOut, stream, sendCalls, probes>>
    /\ UNCHANGED <<packVars, routeVars, agentVars, ageVars>>

\* "err := cboring.WriteByteStringLen(0, client.conn)"
kpWrite ==
    /\ kpPc = "write"
    /\ stream' = IF WriteSucceeds
                 THEN Append(stream, [kind |-> "keepalive", by |-> "kp"])
                 ELSE stream
    /\ kpErr' = ~WriteSucceeds
    /\ kpPc' = "unlock"
    /\ UNCHANGED <<conn, link, mutex, stopSyn, stopAck, sendPc, sendBig,
                   sendErr, closePc, startOut, sendOut, sendCalls, probes>>
    /\ UNCHANGED <<packVars, routeVars, agentVars, ageVars>>

\* a plausible slip: a failed probe is logged and the loop goes on
AfterProbeIgnoresErr(err) == "select"

\* "if err != nil { ...; client.conn.Close(); close(client.stopAck); return }"
AfterProbe(err) == IF err THEN "closeConn" ELSE "select"

kpUnlock ==
    /\ kpPc = "unlock"
    /\ mutex' = "free"
    /\ kpPc' = AfterProbe(kpErr)
    /\ UNCHANGED <<conn, link, stopSyn, stopAck, kpErr, sendPc, sendBig,
                   sendErr, closePc, startOut, sendOut, stream, sendCalls, probes>>
    /\ UNCHANGED <<packVars, routeVars, agentVars, ageVars>>

\* "client.conn.Close()", on either way out of keepaliveProbe
kpCloseConn ==
    /\ kpPc = "closeConn"
    /\ conn' = "closed"
    /\ kpPc' = "closeAck"
    /\ UNCHANGED <<link, mutex, stopSyn, stopAck, kpErr, sendPc, sendBig,
                   sendErr, closePc, startOut, sendOut, stream, sendCalls, probes>>
    /\ UNCHANGED <<packVars, routeVars, agentVars, ageVars>>

\* "close(client.stopAck); return"
kpCloseAck ==
    /\ kpPc = "closeAck"
    /\ stopAck' = stopAck + 1
    /\ kpPc' = "done"
    /\ UNCHANGED <<conn, link, mutex, stopSyn, kpErr, sendPc, sendBig,
                   sendErr, closePc, startOut, sendOut, stream, sendCalls, probes>>
    /\ UNCHANGED <<packVars, routeVars, agentVars, ageVars>>

\* a goroutine calls Send with a bundle; big: the frame is larger than the
\* buffer of the bufio.Writer, which then writes it to the connection in two
\* Writes (the length prefix goes out with the first)
SendCall(t) ==
    /\ sendPc[t] = "idle"
    /\ sendCalls < MaxSendCalls
    /\ sendCalls' = sendCalls + 1
    /\ \E big \in BOOLEAN : sendBig' = [sendBig EXCEPT ![t] = big]
    /\ sendErr' = [sendErr EXCEPT ![t] = "none"]
    /\ sendPc' = [sendPc EXCEPT ![t] = "lock"]
    /\ UNCHANGED <<conn, link, mutex, stopSyn, stopAck, kpPc, kpErr,
                   closePc, startOut, sendOut, stream, probes>>
    /\ UNCHANGED <<packVars, routeVars, agentVars, ageVars>>

\* "client.mutex.Lock(); defer client.mutex.Unlock()"
SendLock(t) ==
    /\ sendPc[t] = "lock"
    /\ LockAcquires(mutex)
    /\ mutex' = t
    /\ sendPc' = [sendPc EXCEPT ![t] = "write"]
    /\ UNCHANGED <<conn, link, stopSyn, stopAck, kpPc, kpErr, sendBig,
                   sendErr, closePc, startOut, sendOut, stream, sendCalls, probes>>
    /\ UNCHANGED <<packVars, routeVars, agentVars, ageVars>>

\* the first Write of the frame on the connection: the whole frame, or the
\* length prefix and the first part of the payload of a big frame
SendWrite(t) ==
    /\ sendPc[t] = "write"
    /\ stream' = IF WriteSucceeds
                 THEN Append(stream, [kind |-> IF sendBig[t] THEN "head" ELSE "frame",
                                      by |-> t])
                 ELSE stream
    /\ sendErr' = [sendErr EXCEPT ![t] = WriteErr]
    /\ sendPc' = [sendPc EXCEPT ![t] =
                    IF WriteSucceeds /\ sendBig[t] THEN "flush" ELSE "return"]
    /\ UNCHANGED <<conn, link, mutex, stopSyn, stopAck, kpPc, kpErr, sendBig,
                   closePc, startOut, sendOut, sendCalls, probes>>
    /\ UNCHANGED <<packVars, routeVars, agentVars, ageVars>>

\* "connWriter.Flush()": the rest of a big frame
SendFlush(t) ==
    /\ sendPc[t] = "flush"
    /\ stream' = IF WriteSucceeds
                 THEN Append(stream, [kind |-> "rest", by |-> t])
                 ELSE stream
    /\ sendErr' = [sendErr EXCEPT ![t] = WriteErr]
    /\ sendPc' = [sendPc EXCEPT ![t] = "return"]
    /\ UNCHANGED <<conn, link, mutex, stopSyn, stopAck, kpPc, kpErr, sendBig,
                   closePc, startOut, sendOut, sendCalls, probes>>
    /\ UNCHANGED <<packVars, routeVars, agentVars, ageVars>>

\* Send returns err; the deferred Unlock runs
SendReturn(t) ==
    /\ sendPc[t] = "return"
    /\ mutex' = "free"
    /\ sendOut' = [op |-> "Send", by |-> t, err |-> sendErr[t]]
    /\ sendPc' = [sendPc EXCEPT ![t] = "idle"]
    /\ UNCHANGED <<conn, link, stopSyn, stopAck, kpPc, kpErr, sendBig,
                   sendErr, closePc, startOut, stream, sendCalls, probes>>
    /\ UNCHANGED <<packVars, routeVars, agentVars, ageVars>>

\* Close, "close(client.stopSyn)"
CloseSyn ==
    /\ closePc = "idle"
    /\ stopSyn' = TRUE
    /\ closePc' = "await"
    /\ UNCHANGED <<conn, link, mutex, stopAck, kpPc, kpErr, sendPc, sendBig,
                   sendErr, startOut, sendOut, stream, sendCalls, probes>>
    /\ UNCHANGED <<packVars, routeVars, agentVars, ageVars>>

\* a plausible slip: Close does not wait for the acknowledgement
ReceiveNeverWaits(closes) == TRUE

\* a receive on a channel nothing is sent on goes through once it is closed
ReceiveFromClosed(closes) == closes > 0

\* Close, "<-client.stopAck"
CloseAck ==
    /\ closePc = "await"
    /\ ReceiveFromClosed(stopAck)
    /\ closePc' = "returned"
    /\ UNCHANGED <<conn, link, mutex, stopSyn, stopAck, kpPc, kpErr, sendPc,
                   sendBig, sendErr, startOut, sendOut, stream, sendCalls, probes>>
    /\ UNCHANGED <<packVars, routeVars, agentVars, ageVars>>

\* the network: the connection breaks, every later Write on it fails
LinkFails ==
    /\ link = "up"
    /\ link' = "down"
    /\ UNCHANGED <<conn, mutex, stopSyn, stopAck, kpPc, kpErr, sendPc, sendBig,
                   sendErr, closePc, startOut, sendOut, stream, sendCalls, probes>>
    /\ UNCHANGED <<packVars, routeVars, agentVars, ageVars>>

(***************************************************************************)
(* webAgentClient (package agent): one WebSocket connection of an          *)
(* application agent, served by handleConn and handleReceiver.             *)
(***************************************************************************)
\* number of messages an agent sends over its connection
MaxMessages == 3

\* bundle.EndpointID{}, the zero value
ZeroEndpoint == "zero"

\* the endpoint strings a Register message may carry; the last one is not an
\* endpoint ID
RegisterStrings == {"dtn:foobar", "dtn:barfoo", "foobar"}

\* bundle.NewEndpointID: an error for a string that is no endpoint ID
NewEndpointIDFails(str) == str \notin {"dtn:foobar", "dtn:barfoo"}

\* the messages of an agent: Register, Bundle, and what does not decode
AgentMessages ==
    {[type |-> "register", endpoint |-> e] : e \in RegisterStrings}
    \cup {[type |-> "bundle", endpoint |-> ""], [type |-> "garbage", endpoint |-> ""]}

\* the goroutines of start(): handleConn and handleReceiver
Loops == {"hc", "hr"}

\* newWebAgentClient, and start() has spawned both loops
AgentIdle ==
    /\ wcEndpoint = ZeroEndpoint
    /\ wcPc = [g \in Loops |-> "loop"]
    /\ wcOnce = "fresh"
    /\ wcCloses = [receiver |-> 0, sender |-> 0, conn |-> 0]
    /\ wcSent = <<>>
    /\ wcOut = [op |-> "none", n |-> 0]
    /\ wcEps = <<>>

\* a plausible slip: a Register on a registered connection replaces the
\* endpoint
handleIncomingRegisterOverwrites(endpoint, m) ==
    IF NewEndpointIDFails(m.endpoint)
    THEN [endpoint |-> endpoint, err |-> "parse error"]
    ELSE [endpoint |-> m.endpoint, err |-> ""]

\* handleIncomingRegister: the client's endpoint afterwards and the error
\* returned ("" for nil)
handleIncomingRegister(endpoint, m) ==
    IF endpoint = ZeroEndpoint
    THEN IF NewEndpointIDFails(m.endpoint)
         THEN [endpoint |-> endpoint, err |-> "parse error"]
         ELSE [endpoint |-> m.endpoint, err |-> ""]
    ELSE [endpoint |-> endpoint,
          err |-> "register errored, an endpoint ID is already present"]

\* newStatusMessage(err)
newStatusMessage(err) == [type |-> "status", errorMsg |-> err]

\* Endpoints()
EndpointsResult(endpoint) ==
    IF endpoint = ZeroEndpoint THEN <<>> ELSE <<endpoint>>

\* a plausible slip: only failures are acknowledged
acknowledgeFailuresOnly(err, written) ==
    [sent |-> IF written /\ err # "" THEN <<newStatusMessage(err)>> ELSE <<>>,
     ret |-> err]

\* acknowledgeIncoming(err): the Status it writes (written: NextWriter,
\* marshalCbor and Close went through) and the error it returns, which is the
\* write error or else the handling error it was given
acknowledgeIncoming(err, written) ==
    [sent |-> IF written THEN <<newStatusMessage(err)>> ELSE <<>>,
     ret |-> IF written THEN err ELSE "write error"]

\* handleConn, one round of its loop for a binary message that decodes: the
\* message is handled and acknowledged; an error ends handleConn
HandleMessage ==
    \E m \in {x \in AgentMessages : x.type # "garbage"}, written \in BOOLEAN :
        LET r == IF m.type = "register"
                 THEN handleIncomingRegister(wcEndpoint, m)
                 ELSE [endpoint |-> wcEndpoint, err |-> ""]
            ack == acknowledgeIncoming(r.err, written)
        IN  /\ wcPc["hc"] = "loop"
            /\ wcCloses.conn = 0
            /\ Len(wcSent) < MaxMessages
            /\ wcEndpoint' = r.endpoint
            /\ wcSent' = wcSent \o ack.sent
            /\ wcPc' = [wcPc EXCEPT !["hc"] = IF ack.ret = "" THEN "loop" ELSE "exit"]
            /\ wcOut' = [op |-> m.type, n |-> wcOut.n + 1, in |-> m.endpoint,
                          before |-> wcEndpoint, err |-> r.err,
                          written |-> ack.sent # <<>>]
            /\ UNCHANGED <<wcOnce, wcCloses, wcEps>>
            /\ UNCHANGED <<packVars, routeVars, mtcpVars, ageVars>>

\* handleConn: a message that is not binary or does not decode, or a reader
\* error of the open connection
HandleUnreadable ==
    /\ wcPc["hc"] = "loop"
    /\ wcCloses.conn = 0
    /\ wcPc' = [wcPc EXCEPT !["hc"] = "exit"]
    /\ wcOut' = [op |-> "garbage", n |-> wcOut.n + 1, in |-> "",
                  before |-> wcEndpoint, err |-> "unreadable", written |-> FALSE]
    /\ UNCHANGED <<wcEndpoint, wcOnce, wcCloses, wcSent, wcEps>>
    /\ UNCHANGED <<packVars, routeVars, mtcpVars, ageVars>>

\* handleConn: NextReader on the closed connection fails
ReadOnClosed ==
    /\ wcPc["hc"] = "loop"
    /\ wcCloses.conn > 0
    /\ wcPc' = [wcPc EXCEPT !["hc"] = "exit"]
    /\ UNCHANGED <<wcEndpoint, wcOnce, wcCloses, wcSent, wcOut, wcEps>>
    /\ UNCHANGED <<packVars, routeVars, mtcpVars, ageVars>>

\* handleReceiver: a ShutdownMessage arrives on client.receiver
ReceiveShutdown ==
    /\ wcPc["hr"] = "loop"
    /\ wcCloses.receiver = 0
    /\ wcPc' = [wcPc EXCEPT !["hr"] = "exit"]
    /\ UNCHANGED <<wcEndpoint, wcOnce, wcCloses, wcSent, wcOut, wcEps>>
    /\ UNCHANGED <<packVars, routeVars, mtcpVars, ageVars>>

\* handleReceiver: a BundleMessage arrives, handleOutgoingBundle writes it to
\* the connection; a write error ends handleReceiver
ReceiveBundle ==
    \E written \in {w \in BOOLEAN : w => wcCloses.conn = 0} :
        /\ wcPc["hr"] = "loop"
        /\ wcCloses.receiver = 0
        /\ Len(wcSent) < MaxMessages
        /\ wcSent' = IF written THEN Append(wcSent, [type |-> "bundle"]) ELSE wcSent
        /\ wcPc' = [wcPc EXCEPT !["hr"] = IF written THEN "loop" ELSE "exit"]
        /\ UNCHANGED <<wcEndpoint, wcOnce, wcCloses, wcOut, wcEps>>
        /\ UNCHANGED <<packVars, routeVars, mtcpVars, ageVars>>

\* handleReceiver: "for msg := range client.receiver" ends on the closed
\* channel
RangeEnds ==
    /\ wcPc["hr"] = "loop"
    /\ wcCloses.receiver > 0
    /\ wcPc' = [wcPc EXCEPT !["hr"] = "exit"]
    /\ UNCHANGED <<wcEndpoint, wcOnce, wcCloses, wcSent, wcOut, wcEps>>
    /\ UNCHANGED <<packVars, routeVars, mtcpVars, ageVars>>

\* a plausible slip: a plain function in place of the sync.Once
OnceAdmitsAll(once) == TRUE

\* shutdownOnce.Do runs the function for the first caller only
OnceAdmits(once) == once = "fresh"

\* a plausible slip: shutdown closes the connection and not the channels
ShutdownClosesConnOnly == "closeConn"

\* the first statement of the function shutdown runs
ShutdownBegins == "closeReceiver"

\* the deferred shutdown of a loop: shutdownOnce.Do lets the first caller in
ShutdownEnter(g) ==
    /\ wcPc[g] = "exit"
    /\ OnceAdmits(wcOnce)
    /\ wcOnce' = "running"
    /\ wcPc' = [wcPc EXCEPT ![g] = ShutdownBegins]
    /\ UNCHANGED <<wcEndpoint, wcCloses, wcSent, wcOut, wcEps>>
    /\ UNCHANGED <<packVars, routeVars, mtcpVars, ageVars>>

\* shutdownOnce.Do returns for a later caller once the function has run
ShutdownSkip(g) ==
    /\ wcPc[g] = "exit"
    /\ wcOnce = "done"
    /\ wcPc' = [wcPc EXCEPT ![g] = "done"]
    /\ UNCHANGED <<wcEndpoint, wcOnce, wcCloses, wcSent, wcOut, wcEps>>
    /\ UNCHANGED <<packVars, routeVars, mtcpVars, ageVars>>

\* "close(client.receiver)"
ShutdownCloseReceiver(g) ==
    /\ wcPc[g] = "closeReceiver"
    /\ wcCloses' = [wcCloses EXCEPT !.receiver = @ + 1]
    /\ wcPc' = [wcPc EXCEPT ![g] = "closeSender"]
    /\ UNCHANGED <<wcEndpoint, wcOnce, wcSent, wcOut, wcEps>>
    /\ UNCHANGED <<packVars, routeVars, mtcpVars, ageVars>>

\* "close(client.sender)"
ShutdownCloseSender(g) ==
    /\ wcPc[g] = "closeSender"
    /\ wcCloses' = [wcCloses EXCEPT !.sender = @ + 1]
    /\ wcPc' = [wcPc EXCEPT ![g] = "closeConn"]
    /\ UNCHANGED <<wcEndpoint, wcOnce, wcSent, wcOut, wcEps>>
    /\ UNCHANGED <<packVars, routeVars, mtcpVars, ageVars>>

\* "_ = client.conn.Close()", the function is through and the loop returns
ShutdownCloseConn(g) ==
    /\ wcPc[g] = "closeConn"
    /\ wcCloses' = [wcCloses EXCEPT !.conn = @ + 1]
    /\ wcOnce' = "done"
    /\ wcPc' = [wcPc EXCEPT ![g] = "done"]
    /\ UNCHANGED <<wcEndpoint, wcSent, wcOut, wcEps>>
    /\ UNCHANGED <<packVars, routeVars, mtcpVars, ageVars>>

\* a call of Endpoints()
webAgentClientEndpoints ==
    /\ wcEps' = EndpointsResult(wcEndpoint)
    /\ wcEps' # wcEps
    /\ UNCHANGED <<wcEndpoint, wcPc, wcOnce, wcCloses, wcSent, wcOut>>
    /\ UNCHANGED <<packVars, routeVars, mtcpVars, ageVars>>

(***************************************************************************)
(* BundlePack.UpdateBundleAge (package core): a pack, the bundle it loads   *)
(* from the store and keeps in bp.bndl, and the clock.                      *)
(***************************************************************************)
\* number of UpdateBundleAge calls on the pack
MaxAgeCalls == 2
\* the clock runs for this many half microseconds
MaxAgeTicks == 4
\* the largest age a bundle arrives with
MaxInitAge == 1

\* "/ 1000": nanoseconds in a microsecond
NanosPerMicro == 1000

\* a pack received at time 0 whose bundle was never loaded
AgeIdle ==
    /\ baTime = 0
    /\ baPack = [Timestamp |-> 0, bndl |-> FALSE]
    /\ baLoad = "ok"
    /\ baBlock = [has |-> TRUE, age |-> 0]
    /\ baInit = 0
    /\ baOut = [op |-> "none", n |-> 0]

\* bp.Bundle(): the cached bundle, or the one loaded from the store
BundleFails == ~baPack.bndl /\ baLoad # "ok"

\* "uint64(time.Now().Sub(bp.Timestamp)) / 1000"
ElapsedMicros(t, timestamp) == (t - timestamp) \div NanosPerMicro

\* UpdateBundleAge: 0 and an error when the bundle cannot be loaded or has no
\* Bundle Age block, else the block is incremented and its new age returned
UpdateBundleAge ==
    /\ baOut.n < MaxAgeCalls
    /\ IF BundleFails
       THEN /\ baOut' = [op |-> "UpdateBundleAge", n |-> baOut.n + 1,
                         at |-> baTime, age |-> 0, err |-> "bundle"]
            /\ UNCHANGED <<baPack, baBlock>>
       ELSE IF ~baBlock.has
       THEN /\ baOut' = [op |-> "UpdateBundleAge", n |-> baOut.n + 1,
                         at |-> baTime, age |-> 0, err |-> "No such block"]
            /\ baPack' = [baPack EXCEPT !.bndl = TRUE]
            /\ UNCHANGED baBlock
       ELSE LET age == baBlock.age + ElapsedMicros(baTime, baPack.Timestamp)
            IN  /\ baBlock' = [baBlock EXCEPT !.age = age]
                /\ baPack' = [baPack EXCEPT !.bndl = TRUE]
                /\ baOut' = [op |-> "UpdateBundleAge", n |-> baOut.n + 1,
                             at |-> baTime, age |-> age, err |-> ""]
    /\ UNCHANGED <<baTime, baLoad, baInit>>
    /\ UNCHANGED <<packVars, routeVars, mtcpVars, agentVars>>

\* half a microsecond passes
AgeTick ==
    /\ baTime < MaxAgeTicks * (NanosPerMicro \div 2)
    /\ baTime' = baTime + NanosPerMicro \div 2
    /\ UNCHANGED <<baPack, baLoad, baBlock, baInit, baOut>>
    /\ UNCHANGED <<packVars, routeVars, mtcpVars, agentVars>>

(***************************************************************************)
(* Specifications.                                                         *)
(***************************************************************************)
PackIdle ==
    /\ store = EmptyMap
    /\ packs = EmptyMap
    /\ packOp = [op |-> "none", slot |-> 0, ok |-> TRUE]

RouterAfterNewDTLSR ==
    /\ routingTable = NewDTLSR.routingTable
    /\ peerChange = NewDTLSR.peerChange
    /\ receivedChange = NewDTLSR.receivedChange
    /\ indexNode = NewDTLSR.indexNode
    /\ length = NewDTLSR.length
    /\ peersTimestamp = NewDTLSR.peersTimestamp
    /\ peersPeers = NewDTLSR.peersPeers
    /\ receivedData = NewDTLSR.receivedData
    /\ nodeIndex = NewDTLSR.nodeIndex
    /\ now = StartTime
    /\ lastOp = NoOp
    /\ post = ValueFields(NewDTLSR)
    /\ seenMax = EmptyMap
    /\ pending = [peerEvent |-> FALSE, change |-> FALSE]
    /\ emitted = <<>>

\* ---- the router as the node runs it
Init == PackIdle /\ RouterAfterNewDTLSR /\ ClientIdle /\ AgentIdle /\ AgeIdle

Next ==
    \/ NotifyIncoming
    \/ ReportPeerAppeared
    \/ ReportPeerDisappeared
    \/ ReportFailure
    \/ recomputeCron
    \/ broadcastCron
    \/ purgePeers
    \/ Tick

Spec == Init /\ [][Next]_vars

\* ---- SenderForBundle on a DTLSR value with any routing table
RoutingTables == UNION {[S -> Others] : S \in SUBSET Others}

InitSender ==
    /\ PackIdle
    /\ ClientIdle
    /\ AgentIdle
    /\ AgeIdle
    /\ routingTable \in RoutingTables
    /\ peerChange = NewDTLSR.peerChange
    /\ receivedChange = NewDTLSR.receivedChange
    /\ indexNode = NewDTLSR.indexNode
    /\ length = NewDTLSR.length
    /\ peersTimestamp = NewDTLSR.peersTimestamp
    /\ peersPeers = NewDTLSR.peersPeers
    /\ receivedData = NewDTLSR.receivedData
    /\ nodeIndex = NewDTLSR.nodeIndex
    /\ now = StartTime
    /\ lastOp = NoOp
    /\ post = ValueFields(Held)
    /\ seenMax = EmptyMap
    /\ pending = [peerEvent |-> FALSE, change |-> FALSE]
    /\ emitted = <<>>

NextSender == SenderForBundle

SpecSender == InitSender /\ [][NextSender]_vars

\* ---- computeRoutingTable on a DTLSR value whose node index is consistent
\* the node index: the own node first, then other nodes, each once
NodeIndexes ==
    {ix \in UNION {[1..n -> Endpoints] : n \in 1..Cardinality(Endpoints)} :
        /\ ix[1] = NodeId
        /\ \A i, j \in DOMAIN ix : i # j => ix[i] # ix[j]}

\* the peers map of a record: no peer, or one indexed peer with a timestamp
RecordPeers(ix, id) ==
    {EmptyMap} \cup
    UNION {{[p \in {e} |-> t] : t \in 0..MaxTime} : e \in Range(ix) \ {id}}

\* the received data: a record or none for each indexed other node
ReceivedDataOver(ix) ==
    UNION {{rd \in [S -> [id : S, timestamp : {StartTime},
                          peers : UNION {RecordPeers(ix, o) : o \in S}]] :
                \A o \in S : rd[o].id = o /\ rd[o].peers \in RecordPeers(ix, o)} :
           S \in SUBSET (Range(ix) \ {NodeId})}

InitCompute ==
    /\ PackIdle
    /\ ClientIdle
    /\ AgentIdle
    /\ AgeIdle
    /\ indexNode \in NodeIndexes
    /\ length = Len(indexNode)
    /\ nodeIndex = [e \in Range(indexNode) |->
                        (CHOOSE i \in DOMAIN indexNode : indexNode[i] = e) - 1]
    /\ peersPeers \in UNION {[S -> 0..MaxTime] : S \in SUBSET Others}
    /\ receivedData \in ReceivedDataOver(indexNode)
    /\ routingTable = EmptyMap
    /\ peerChange = FALSE
    /\ receivedChange = FALSE
    /\ peersTimestamp = StartTime
    /\ now \in StartTime..MaxTime
    /\ \A p \in DOMAIN peersPeers : peersPeers[p] <= now
    /\ lastOp = NoOp
    /\ post = ValueFields(Held)
    /\ seenMax = EmptyMap
    /\ pending = [peerEvent |-> FALSE, change |-> FALSE]
    /\ emitted = <<>>

NextCompute == computeRoutingTable

SpecCompute == InitCompute /\ [][NextCompute]_vars

\* ---- broadcast on the DTLSR value the core holds, between the events that
\* ---- change the own peers map
NextBroadcast ==
    \/ ReportPeerAppeared
    \/ ReportPeerDisappeared
    \/ purgePeers
    \/ broadcast
    \/ Tick

SpecBroadcast == Init /\ [][NextBroadcast]_vars

\* ---- bundle packs on the store
InitPack == PackIdle /\ RouterAfterNewDTLSR /\ ClientIdle /\ AgentIdle /\ AgeIdle

NextPack ==
    \/ \E slot \in PackSlots, id \in BundleIds : NewBundlePack(slot, id)
    \/ \E slot \in PackSlots, id \in BundleIds : NewBundlePackFromBundle(slot, id)
    \/ \E slot \in PackSlots, c \in Constraints : AddConstraint(slot, c)
    \/ \E slot \in PackSlots, c \in Constraints : RemoveConstraint(slot, c)
    \/ \E slot \in PackSlots : PurgeConstraints(slot)
    \/ \E slot \in PackSlots : Sync(slot)
    \/ \E id \in BundleIds : StoreDelete(id)

SpecPack == InitPack /\ [][NextPack]_vars

\* ---- the MTCP client and the goroutines working on it
InitMTCP == PackIdle /\ RouterAfterNewDTLSR /\ ClientIdle /\ AgentIdle /\ AgeIdle

NextMTCP ==
    \/ Start
    \/ kpStopSyn
    \/ kpTimer
    \/ kpLock
    \/ kpWrite
    \/ kpUnlock
    \/ kpCloseConn
    \/ kpCloseAck
    \/ \E t \in Threads : SendCall(t)
    \/ \E t \in Threads : SendLock(t)
    \/ \E t \in Threads : SendWrite(t)
    \/ \E t \in Threads : SendFlush(t)
    \/ \E t \in Threads : SendReturn(t)
    \/ CloseSyn
    \/ CloseAck
    \/ LinkFails

SpecMTCP == InitMTCP /\ [][NextMTCP]_vars

\* ---- a web agent client serving its connection
InitAgent == PackIdle /\ RouterAfterNewDTLSR /\ ClientIdle /\ AgentIdle /\ AgeIdle

NextAgent ==
    \/ HandleMessage
    \/ HandleUnreadable
    \/ ReadOnClosed
    \/ ReceiveShutdown
    \/ ReceiveBundle
    \/ RangeEnds
    \/ \E g \in Loops : ShutdownEnter(g)
    \/ \E g \in Loops : ShutdownSkip(g)
    \/ \E g \in Loops : ShutdownCloseReceiver(g)
    \/ \E g \in Loops : ShutdownCloseSender(g)
    \/ \E g \in Loops : ShutdownCloseConn(g)
    \/ webAgentClientEndpoints

SpecAgent == InitAgent /\ [][NextAgent]_vars

\* ---- UpdateBundleAge on a pack, for every bundle and store
InitAge ==
    /\ PackIdle
    /\ RouterAfterNewDTLSR
    /\ ClientIdle
    /\ AgentIdle
    /\ baTime = 0
    /\ baPack = [Timestamp |-> 0, bndl |-> FALSE]
    /\ baLoad \in {"ok", "queryErr", "loadErr"}
    /\ baInit \in 0..MaxInitAge
    /\ baBlock \in {[has |-> h, age |-> IF h THEN baInit ELSE 0] : h \in BOOLEAN}
    /\ baOut = [op |-> "none", n |-> 0]

NextAge ==
    \/ UpdateBundleAge
    \/ AgeTick

SpecAge == InitAge /\ [][NextAge]_vars

\* the scheduler runs a loop that can take a step of its shutdown, a read on
\* the closed connection fails and a range over the closed channel ends
FairAgent ==
    /\ WF_vars(ReadOnClosed)
    /\ WF_vars(RangeEnds)
    /\ \A g \in Loops :
        /\ WF_vars(ShutdownEnter(g))
        /\ WF_vars(ShutdownSkip(g))
        /\ WF_vars(ShutdownCloseReceiver(g))
        /\ WF_vars(ShutdownCloseSender(g))
        /\ WF_vars(ShutdownCloseConn(g))

SpecAgentFair == InitAgent /\ [][NextAgent]_vars /\ FairAgent

\* the scheduler runs every goroutine that can take a step, a select with
\* a ready case that is reached again and again takes it, and a goroutine
\* waiting for the mutex gets it
FairMTCP ==
    /\ SF_vars(kpStopSyn)
    /\ SF_vars(kpLock)
    /\ WF_vars(kpWrite)
    /\ WF_vars(kpUnlock)
    /\ WF_vars(kpCloseConn)
    /\ WF_vars(kpCloseAck)
    /\ WF_vars(CloseAck)
    /\ \A t \in Threads :
        WF_vars(SendWrite(t)) /\ WF_vars(SendFlush(t)) /\ WF_vars(SendReturn(t))

SpecMTCPFair == InitMTCP /\ [][NextMTCP]_vars /\ FairMTCP

(***************************************************************************)
(* Properties.                                                             *)
(***************************************************************************)
\* the Pending rule of the data model
PendingRule(cs) ==
    /\ ("ForwardPending" \in cs \/ "Contraindicated" \in cs)
    /\ "ReassemblyPending" \notin cs

\* C1, as stated: in every state, for every BundlePack whose item is in the
\* store, the item's Pending flag is true iff the pack's constraint set holds
\* ForwardPending or Contraindicated and not ReassemblyPending.
C1_PendingFollowsPack ==
    \A slot \in DOMAIN packs :
        packs[slot].Id \in DOMAIN store =>
            (store[packs[slot].Id].Pending <=> PendingRule(packs[slot].Constraints))

\* C1, amended: the Pending flag follows the constraint set as of the last
\* Sync. Right after a successful Sync of a pack the item's Pending flag is
\* true iff that pack's constraint set holds ForwardPending or Contraindicated
\* and not ReassemblyPending; in every state Pending is true iff the
\* constraint set persisted in the item's Properties satisfies that rule, and
\* an item no pack was synced to (a fresh one) has Pending = false.
C1_PendingFollowsSync ==
    /\ \A id \in DOMAIN store :
        LET props == store[id].Properties
        IN  IF "bundlepack/constraints" \in DOMAIN props
            THEN store[id].Pending <=> PendingRule(props["bundlepack/constraints"])
            ELSE ~store[id].Pending
    /\ (packOp.op = "Sync" /\ packOp.ok) =>
            (store[packs[packOp.slot].Id].Pending
                <=> PendingRule(packs[packOp.slot].Constraints))

\* C1 witness: a Sync of a pack with ForwardPending and ReassemblyPending has
\* just succeeded
C1_SyncedReassembly ==
    /\ packOp.op = "Sync" /\ packOp.ok
    /\ {"ForwardPending", "ReassemblyPending"} \subseteq packs[packOp.slot].Constraints

\* C2: for every origin, the record retained in receivedData has the largest
\* timestamp among all records received so far for that origin (and an
\* origin has a retained record as soon as one was received).
C2_RetainedIsNewest ==
    /\ DOMAIN receivedData = DOMAIN seenMax
    /\ \A o \in DOMAIN receivedData :
        receivedData[o].id = o /\ receivedData[o].timestamp = seenMax[o]

\* C2 witness: a record older than the retained one has just been received
C2_OlderReceived ==
    /\ lastOp.op = "NotifyIncoming"
    /\ lastOp.in.id \in DOMAIN receivedData
    /\ lastOp.in.timestamp < receivedData[lastOp.in.id].timestamp

\* C3: a NotifyIncoming whose record is for an origin that has a stored record
\* and whose timestamp is not strictly greater than the stored one changes
\* nothing: receivedData, the node index and receivedChange stay as they
\* were, also in the copy of the struct the call worked on.
C3_StaleIgnored ==
    [][(/\ lastOp'.op = "NotifyIncoming"
        /\ lastOp'.in.id \in DOMAIN receivedData
        /\ lastOp'.in.timestamp <= receivedData[lastOp'.in.id].timestamp)
       => /\ UNCHANGED <<receivedData, nodeIndex, indexNode, length, receivedChange>>
          /\ post' = ValueFields(Held)
          /\ lastOp'.out = FALSE]_vars

\* C3 witness: a record as old as the stored one has just been received
C3_EqualReceived ==
    /\ lastOp.op = "NotifyIncoming"
    /\ lastOp.out = FALSE
    /\ lastOp.in.id \in DOMAIN receivedData
    /\ lastOp.in.timestamp = receivedData[lastOp.in.id].timestamp

\* the graph of the claim: an edge origin -> peer for every peer entry of
\* the own and of the received peer data, over endpoints
EndpointArcs ==
    {[src |-> NodeId, dst |-> p, cost |-> EdgeCost(now, peersPeers[p])] :
        p \in DOMAIN peersPeers}
    \cup
    UNION {{[src |-> o, dst |-> p, cost |-> EdgeCost(now, receivedData[o].peers[p])] :
                p \in DOMAIN receivedData[o].peers} : o \in DOMAIN receivedData}

\* the neighbours of the own node that start a minimum-cost path to dest
FirstHops(dest) ==
    LET paths == PathsFrom(EndpointArcs, NodeId, dest, {})
    IN  {p[2] : p \in {q \in paths :
                    \A r \in paths : PathCost(EndpointArcs, q) <= PathCost(EndpointArcs, r)}}

\* C4, as stated: after computeRoutingTable, every indexed destination other
\* than the own node that is reachable has the first hop of a minimum-cost
\* path as its entry, and an unreachable one has no entry.
C4_TableHoldsFirstHops ==
    lastOp.op = "computeRoutingTable" =>
        \A dest \in DOMAIN nodeIndex \ {NodeId} :
            IF FirstHops(dest) # {}
            THEN /\ dest \in DOMAIN post.routingTable
                 /\ post.routingTable[dest] \in FirstHops(dest)
            ELSE dest \notin DOMAIN post.routingTable

\* C5, as stated: for a destination that is not the broadcast endpoint and
\* has a routing table entry, SenderForBundle returns exactly the senders of
\* the snapshot whose peer is the forwarder, every one of them.
C5_EveryMatchingSender ==
    (/\ lastOp.op = "SenderForBundle"
     /\ lastOp.in.dest # BroadcastAddress
     /\ lastOp.in.dest \in DOMAIN routingTable)
    => Range(lastOp.out.sender) =
         {lastOp.in.snapshot[i] :
            i \in Matching(lastOp.in.snapshot, routingTable[lastOp.in.dest])}

\* C5, amended: for a destination that is not the broadcast endpoint and has
\* a routing table entry, SenderForBundle returns at most one sender: none
\* when no sender of the snapshot has the forwarder as its peer, and otherwise
\* the first sender of the snapshot whose peer is the forwarder.
C5_FirstMatchingSender ==
    (/\ lastOp.op = "SenderForBundle"
     /\ lastOp.in.dest # BroadcastAddress
     /\ lastOp.in.dest \in DOMAIN routingTable)
    => LET snapshot == lastOp.in.snapshot
           forwarder == routingTable[lastOp.in.dest]
           got == lastOp.out.sender
       IN  /\ Len(got) <= 1
           /\ Len(got) = 1 <=> \E i \in DOMAIN snapshot : snapshot[i].peer = forwarder
           /\ Len(got) = 1 =>
                \E i \in DOMAIN snapshot :
                    /\ snapshot[i] = got[1]
                    /\ got[1].peer = forwarder
                    /\ \A j \in 1..(i - 1) : snapshot[j].peer # forwarder

\* C5 witness: two senders of the snapshot have the forwarder as their peer
C5_TwoMatching ==
    /\ lastOp.op = "SenderForBundle"
    /\ lastOp.in.dest \in DOMAIN routingTable
    /\ Cardinality(Matching(lastOp.in.snapshot, routingTable[lastOp.in.dest])) = 2
    /\ Len(lastOp.out.sender) = 1

\* C6: SenderForBundle never asks for the bundle to be deleted; for the
\* broadcast endpoint it returns the whole snapshot whatever the routing table
\* holds; for a destination without a routing table entry, or whose forwarder
\* is the peer of no sender, it returns no sender.
C6_BroadcastToAll ==
    lastOp.op = "SenderForBundle" =>
        /\ lastOp.out.delete = FALSE
        /\ lastOp.in.dest = BroadcastAddress => lastOp.out.sender = lastOp.in.snapshot
        /\ (/\ lastOp.in.dest # BroadcastAddress
            /\ \/ lastOp.in.dest \notin DOMAIN routingTable
               \/ \A i \in DOMAIN lastOp.in.snapshot :
                    lastOp.in.snapshot[i].peer # routingTable[lastOp.in.dest])
           => lastOp.out.sender = <<>>

\* C6 witness: a broadcast bundle, two senders, a routing table with entries
C6_BroadcastTwoSenders ==
    /\ lastOp.op = "SenderForBundle"
    /\ lastOp.in.dest = BroadcastAddress
    /\ Len(lastOp.in.snapshot) = 2
    /\ routingTable # EmptyMap
    /\ Len(lastOp.out.sender) = 2

\* C7, as stated: the broadcast tick that follows a reported peer-appeared or
\* peer-disappeared event emits one metadata bundle whose block carries the
\* own peer data as updated by the event.
C7_PeerEventIsBroadcast ==
    (lastOp.op = "broadcastCron" /\ lastOp.in = TRUE) =>
        /\ Len(lastOp.out) = 1
        /\ lastOp.out[1].id = NodeId
        /\ lastOp.out[1].peers = peersPeers

C9_ChangeIsRecomputed ==
    (lastOp.op = "recomputeCron" /\ lastOp.in = TRUE) =>
        /\ lastOp.out = TRUE
        /\ routingTable = computeRoutingTableBody(Held).routingTable

\* the endpoints a routing table names, as destination or as next hop
TableEndpoints(table) == DOMAIN table \cup Range(table)

\* C10: every endpoint the routing table names, as a destination or as a
\* next hop, is in the node index; this holds of the table the struct holds
\* and of the table computeRoutingTable has just built.
C10_TableWithinIndex ==
    /\ TableEndpoints(routingTable) \subseteq DOMAIN nodeIndex
    /\ TableEndpoints(post.routingTable) \subseteq DOMAIN nodeIndex

\* C10 witness: computeRoutingTable has built a table with an entry while a
\* peer of the own peer data is not in the node index
C10_TableBuilt ==
    /\ lastOp.op = "computeRoutingTable"
    /\ post.routingTable # EmptyMap
    /\ \E p \in DOMAIN peersPeers : p \notin DOMAIN nodeIndex

\* the own peers purgePeers has to remove: disconnected for more than purgeTime
StalePeers ==
    {p \in DOMAIN peersPeers :
        peersPeers[p] # 0 /\ now - peersPeers[p] > PurgeTime}

\* C11, as stated: purgePeers removes from the own peers map exactly the
\* peers with a non-zero timestamp and now - timestamp > purgeTime, leaves
\* the others as they are, and the router's peerChange is set if and only if
\* a peer was removed.
C11_PurgeSetsPeerChange ==
    [][lastOp'.op = "purgePeers" =>
        /\ peersPeers' = [p \in DOMAIN peersPeers \ StalePeers |-> peersPeers[p]]
        /\ StalePeers # {} => peerChange'
        /\ StalePeers = {} => peerChange' = peerChange]_vars

\* C12: a ReportFailure call leaves the router as it was: routing table,
\* own peers and their timestamp, received data, node index, peerChange and
\* receivedChange, in the struct the router holds and in the call's own copy;
\* a ReportPeerDisappeared call does change the peer state: it records the
\* peer's disconnect time.
C12_FailureChangesNothing ==
    [][/\ lastOp'.op = "ReportFailure" =>
            /\ UNCHANGED <<heldVars, mapVars>>
            /\ post' = ValueFields(Held)
       /\ lastOp'.op = "ReportPeerDisappeared" =>
            /\ lastOp'.in \in DOMAIN peersPeers'
            /\ peersPeers'[lastOp'.in] = now]_vars

\* C12 witness: a send failure was reported for a sender whose peer is a
\* connected direct peer, while received data is held
C12_FailureOfConnectedPeer ==
    /\ lastOp.op = "ReportFailure"
    /\ lastOp.in \in DOMAIN peersPeers
    /\ peersPeers[lastOp.in] = 0
    /\ receivedData # EmptyMap

\* the goroutines whose Send is in flight: they hold the mutex and have not
\* finished writing their frame
InFlight == {t \in Threads : sendPc[t] \in {"write", "flush"}}

\* C13, as stated: once Close was called, the connection is not closed while
\* a Send is in flight, i.e. no step closes the socket between the start and
\* the end of a Send's frame write.
C13_CloseWaitsForSend ==
    [][(stopSyn /\ conn = "open" /\ conn' = "closed") => InFlight = {}]_vars

\* the keepalive probes written to the connection so far
ProbesWritten == {i \in DOMAIN stream : stream[i].kind = "keepalive"}

\* C14: after a successful Start, a Close that signalled stop-request
\* eventually returns; whenever Close has returned, the connection is closed
\* and the keepalive goroutine has terminated; and no keepalive probe is
\* written once Close has returned.
C14_CloseReturns ==
    /\ (closePc = "await" /\ conn # "nil") ~> (closePc = "returned")
    /\ [](closePc = "returned" => (conn = "closed" /\ kpPc = "done"))
    /\ [][closePc = "returned" => ProbesWritten' = ProbesWritten]_vars

\* C14 witness: Close has returned on a client that had written a probe and
\* whose keepalive goroutine left through the stop-request
C14_ClosedAfterProbe ==
    /\ closePc = "returned"
    /\ ProbesWritten # {}
    /\ ~kpErr
    /\ conn = "closed"

\* the goroutines that are writing to the connection: between taking the
\* mutex and the end of their frame
Writers == InFlight \cup (IF kpPc = "write" THEN {"kp"} ELSE {})

\* C15: at no time are two goroutines (two Send calls, or a Send call and
\* the keepalive probe) writing to the connection, and what was written is a
\* sequence of whole frames: the first part of a bundle frame is followed by
\* the rest of the same frame, never by a keepalive frame or by another
\* frame (only the last frame may lack its rest, while it is being written or
\* when the connection failed under it).
C15_WritesAreExclusive ==
    /\ Cardinality(Writers) <= 1
    /\ \A i \in DOMAIN stream :
        /\ (stream[i].kind = "head" /\ i < Len(stream)) =>
                (stream[i + 1].kind = "rest" /\ stream[i + 1].by = stream[i].by)
        /\ stream[i].kind = "rest" =>
                (i > 1 /\ stream[i - 1].kind = "head" /\ stream[i - 1].by = stream[i].by)

\* C15 witness: a Send has written the first part of its frame and holds the
\* mutex, while the keepalive probe and the other Send wait for it
C15_ProbeWaitsForSend ==
    /\ kpPc = "lock"
    /\ \E t, u \in Threads : sendPc[t] = "flush" /\ sendPc[u] = "lock"
    /\ stream # <<>>
    /\ stream[Len(stream)].kind = "head"

\* C16, as stated: a Start whose connect fails leaves the client without a
\* connection and reports retriable = true; and an I/O error closes the
\* connection whatever the client was doing: after a Send that returned an
\* I/O error the connection is closed, as it is after a failed keepalive
\* probe.
C16_IoErrorCloses ==
    /\ (startOut.op = "Start" /\ startOut.err) => (conn = "nil" /\ startOut.retry)
    /\ (kpErr /\ kpPc = "done") => conn = "closed"
    /\ (sendOut.op = "Send" /\ sendOut.err = "io") => conn = "closed"

\* C17: a keepalive timer that fires on a working connection writes one
\* zero-length frame; a probe write that fails is followed by the close of
\* the connection and the end of the keepalive goroutine, which writes no
\* probe afterwards; stop-ack is closed once and never twice, so that a Close
\* called after the goroutine ended finds stop-ack closed and does not block.
C17_FailedProbeCloses ==
    /\ [][(kpPc = "write" /\ kpPc' # "write") =>
            IF WriteSucceeds
            THEN stream' = Append(stream, [kind |-> "keepalive", by |-> "kp"]) /\ ~kpErr'
            ELSE stream' = stream /\ kpErr']_vars
    /\ kpErr ~> (kpPc = "done" /\ conn = "closed" /\ stopAck = 1)
    /\ [](stopAck <= 1 /\ (kpPc = "done" => ReceiveFromClosed(stopAck)))
    /\ [][kpPc = "done" => (ProbesWritten' = ProbesWritten /\ kpPc' = "done")]_vars

\* C17 witness: a probe was written, a later probe failed, the goroutine
\* ended, and the Close called afterwards has returned
C17_CloseAfterFailedProbe ==
    /\ kpPc = "done"
    /\ kpErr
    /\ ProbesWritten # {}
    /\ closePc = "returned"
    /\ stopAck = 1

\* C18: the endpoint of a web agent client is set once, by a Register that
\* carries a valid endpoint ID while none is set, and never changes
\* afterwards; a Register on a registered connection leaves the endpoint and
\* the result of Endpoints() as they were and the Status written for it
\* carries a non-empty error; as long as no Register succeeded, Endpoints()
\* is empty.
C18_OneRegistration ==
    /\ [][wcEndpoint # ZeroEndpoint => wcEndpoint' = wcEndpoint]_vars
    /\ [][(wcEndpoint = ZeroEndpoint /\ wcEndpoint' # ZeroEndpoint) =>
            /\ wcOut'.op = "register"
            /\ wcOut'.in = wcEndpoint'
            /\ ~NewEndpointIDFails(wcOut'.in)]_vars
    /\ [][(/\ wcOut' # wcOut
            /\ wcOut'.op = "register"
            /\ wcOut'.written
            /\ wcEndpoint # ZeroEndpoint) =>
            /\ EndpointsResult(wcEndpoint') = EndpointsResult(wcEndpoint)
            /\ wcSent'[Len(wcSent')].errorMsg # ""]_vars
    /\ [](wcEndpoint = ZeroEndpoint => EndpointsResult(wcEndpoint) = <<>>)
    /\ [](wcEps # <<>> => wcEps = <<wcEndpoint>>)

\* C18 witness: a registered connection received a Register for another
\* endpoint, the Status was written, and Endpoints() was called afterwards
C18_SecondRegister ==
    /\ wcOut.op = "register"
    /\ wcOut.before # ZeroEndpoint
    /\ wcOut.in # wcOut.before
    /\ ~NewEndpointIDFails(wcOut.in)
    /\ wcOut.written
    /\ wcEps = <<wcOut.before>>

\* C19: after PurgeConstraints the pack holds no constraint other than
\* LocalEndpoint, it holds LocalEndpoint if and only if it did before the
\* call, and its Id, Receiver and Timestamp are those of before.
C19_PurgeKeepsLocalEndpoint ==
    [][packOp'.op = "PurgeConstraints" =>
        LET before == packs[packOp'.slot]
            after == packs'[packOp'.slot]
        IN  /\ after.Constraints \subseteq {"LocalEndpoint"}
            /\ "LocalEndpoint" \in after.Constraints <=>
                    "LocalEndpoint" \in before.Constraints
            /\ after.Id = before.Id
            /\ after.Receiver = before.Receiver
            /\ after.Timestamp = before.Timestamp]_vars

\* C19 witness: PurgeConstraints ran on a pack that held LocalEndpoint and
\* two other constraints
C19_PurgedThree ==
    /\ packOp.op = "PurgeConstraints"
    /\ "LocalEndpoint" \in packOp.before
    /\ Cardinality(packOp.before) = 3
    /\ packs[packOp.slot].Constraints = {"LocalEndpoint"}

\* the cost the routing computation is to give an edge recorded with
\* timestamp ts: 0 for a connected peer, else max(0, now - ts)
ClampedCost(ts) == IF ts = 0 \/ now - ts < 0 THEN 0 ELSE now - ts

\* C20, as stated: in the graph computeRoutingTable builds, every edge from
\* own or received peer data has cost 0 for timestamp 0 and max(0, now - ts)
\* otherwise; no edge has a negative cost.
C20_EdgeCostClamped ==
    lastOp.op = "computeRoutingTable" =>
        /\ \A a \in OwnArcs(Held) \cup ReceivedArcs(Held) : a.cost >= 0
        /\ OwnArcs(Held) =
                {[src |-> 0, dst |-> NodeIndexOf(Held, peer),
                  cost |-> ClampedCost(peersPeers[peer])] : peer \in DOMAIN peersPeers}
        /\ ReceivedArcs(Held) =
                UNION {{[src |-> NodeIndexOf(Held, o),
                         dst |-> NodeIndexOf(Held, peer),
                         cost |-> ClampedCost(receivedData[o].peers[peer])] :
                            peer \in DOMAIN receivedData[o].peers} :
                       o \in DOMAIN receivedData}

\* C21, as stated: the node index is a bijection in every state: nodeIndex
\* maps distinct endpoints to distinct integers in 0..length-1, indexNode
\* inverts it, length is the number of indexed endpoints, and the own node
\* has index 0.
C21_NodeIndexBijective ==
    /\ \A e1, e2 \in DOMAIN nodeIndex :
            e1 # e2 => nodeIndex[e1] # nodeIndex[e2]
    /\ \A e \in DOMAIN nodeIndex :
            /\ nodeIndex[e] \in 0..(length - 1)
            /\ IndexNodeAt(Held, nodeIndex[e]) = e
    /\ length = Cardinality(DOMAIN nodeIndex)
    /\ nodeIndex[NodeId] = 0

\* C22, as stated: a peer-appeared event leaves the peer's inner timestamp
\* at 0, a peer-disappeared event leaves it at the time of the event, no
\* other step changes the inner timestamp of a peer that stays in the map,
\* and the own outer timestamp is set to the time of each appeared or
\* disappeared event and never decreases.
C22_OwnPeerDataTimestamps ==
    [][/\ lastOp'.op = "ReportPeerAppeared" =>
            (peersPeers'[lastOp'.in] = 0 /\ peersTimestamp' = now)
       /\ lastOp'.op = "ReportPeerDisappeared" =>
            (peersPeers'[lastOp'.in] = now /\ peersTimestamp' = now)
       /\ \A p \in DOMAIN peersPeers \cap DOMAIN peersPeers' :
            (lastOp'.op \in {"ReportPeerAppeared", "ReportPeerDisappeared"}
                /\ lastOp'.in = p)
            \/ peersPeers'[p] = peersPeers[p]
       /\ peersTimestamp' >= peersTimestamp]_vars

\* whether handling message m succeeds on a client whose endpoint is e: only
\* a Register can fail, when one is present already or its string is no
\* endpoint ID
HandlingSucceeds(e, op, str) ==
    op = "register" => (e = ZeroEndpoint /\ ~NewEndpointIDFails(str))

\* C23: a round of handleConn for a message that decodes writes at most one
\* Status, and exactly one when handleConn goes on to read the next message;
\* nothing else is written by that round; the Status carries an empty error
\* if and only if handling the message succeeded.
C23_OneStatusPerMessage ==
    [][(wcOut' # wcOut /\ wcOut'.op # "garbage") =>
        /\ wcPc'["hc"] = "loop" => wcOut'.written
        /\ IF wcOut'.written
           THEN /\ Len(wcSent') = Len(wcSent) + 1
                /\ SubSeq(wcSent', 1, Len(wcSent)) = wcSent
                /\ wcSent'[Len(wcSent')].type = "status"
                /\ wcSent'[Len(wcSent')].errorMsg = "" <=>
                        HandlingSucceeds(wcEndpoint, wcOut'.op, wcOut'.in)
           ELSE wcSent' = wcSent]_vars

\* C23 witness: a valid first Register was answered with an empty-error
\* Status after handleReceiver had written a bundle, and handleConn reads on
C23_RegisterAcknowledged ==
    /\ wcOut.op = "register"
    /\ wcOut.before = ZeroEndpoint
    /\ wcEndpoint = wcOut.in
    /\ Len(wcSent) = 2
    /\ wcSent[1].type = "bundle"
    /\ wcSent[2] = newStatusMessage("")
    /\ wcPc["hc"] = "loop"

\* the client is shut down: the connection is closed and both loops have
\* returned
AgentShutDown ==
    /\ wcCloses.conn > 0
    /\ wcPc["hr"] = "done"
    /\ wcPc["hc"] = "done"

\* C24: once handleReceiver has received a ShutdownMessage (it leaves its
\* loop), the client eventually is shut down: the connection closed, both
\* loops returned; and so it is once handleConn has left its loop on a read
\* or decode error.
C24_ShutdownCompletes ==
    /\ (wcPc["hr"] = "exit") ~> AgentShutDown
    /\ (wcPc["hc"] = "exit") ~> AgentShutDown

\* C24 witness: handleConn ended first, on a message that did not decode,
\* and the client is shut down
C24_ShutDownAfterReadError ==
    /\ AgentShutDown
    /\ wcOut.op = "garbage"
    /\ wcSent # <<>>

\* C28: under every interleaving of the two loops, the receiver channel, the
\* sender channel and the connection are each closed at most once, no two
\* loops are inside the shutdown function together, and once both loops have
\* returned each of the three was closed exactly once.
C28_ShutdownOnce ==
    /\ wcCloses.receiver <= 1
    /\ wcCloses.sender <= 1
    /\ wcCloses.conn <= 1
    /\ Cardinality({g \in Loops :
            wcPc[g] \in {"closeReceiver", "closeSender", "closeConn"}}) <= 1
    /\ (\A g \in Loops : wcPc[g] = "done") =>
            wcCloses = [receiver |-> 1, sender |-> 1, conn |-> 1]

\* C28 witness: one loop is inside the shutdown function, the receiver
\* channel closed, while the other loop has reached its own shutdown call
C28_BothCallShutdown ==
    \E g, h \in Loops :
        /\ wcPc[g] = "closeSender"
        /\ wcPc[h] = "exit"
        /\ wcCloses.receiver = 1

\* C25, as stated: an UpdateBundleAge call that finds the Bundle Age block
\* returns the block's new age, and after any number of calls that age is
\* the age the bundle arrived with plus the time it has spent on this node
\* (from the pack's Timestamp to the call, in microseconds); a call that
\* cannot load the bundle or finds no Bundle Age block returns 0 with an
\* error and leaves the age as it was.
C25_AgeIsTimeOnNode ==
    baOut.op = "UpdateBundleAge" =>
        IF baOut.err = ""
        THEN /\ baOut.age = baBlock.age
             /\ baBlock.age =
                    baInit + ((baOut.at - baPack.Timestamp) \div NanosPerMicro)
        ELSE /\ baOut.age = 0
             /\ baBlock.age = IF baBlock.has THEN baInit ELSE 0

\* C26: when a broadcast carries a peers map different from the one of the
\* broadcast before it, its outer timestamp is strictly greater than that of
\* the broadcast before it (the receiver's strictly-newer rule accepts it).
C26_LaterBroadcastIsNewer ==
    [][(emitted' # emitted /\ emitted # <<>>
            /\ emitted'[1].peers # emitted[1].peers)
        => emitted'[1].timestamp > emitted[1].timestamp]_vars

\* C27, as stated: a Close that signalled the stop-request eventually returns,
\* whatever state the client was in when it was called (never started, Start
\* failed, connected, connection closed by a failed probe).
C27_CloseAlwaysReturns ==
    (closePc = "await") ~> (closePc = "returned")

\* the goroutines inside Send's critical section, holding the mutex
Locked == {t \in Threads : sendPc[t] \in {"write", "flush", "return"}}

\* C29: a Send that took the mutex returns to its caller, and the mutex is
\* free at its return; the mutex is held only by a Send or a probe that is
\* still inside its critical section, and a held mutex becomes free again; a
\* Send on a client without a connection (never started, or Start failed)
\* returns a non-nil error.
C29_SendReturnsUnlocked ==
    /\ \A t \in Threads : (t \in Locked) ~> (sendPc[t] = "idle")
    /\ (mutex # "free") ~> (mutex = "free")
    /\ [](/\ \A t \in Threads : mutex = t => t \in Locked
          /\ mutex = "kp" => kpPc \in {"write", "unlock"})
    /\ [][\A t \in Threads :
            (sendPc[t] = "return" /\ sendPc'[t] = "idle") =>
                /\ mutex' = "free"
                /\ sendOut'.by = t
                /\ conn = "nil" => sendOut'.err # "none"]_vars

\* C29 witness: a Send on a client without a connection has returned the
\* error of the recovered panic, and a later Send holds the mutex
C29_SendAfterPanickedSend ==
    /\ sendOut.op = "Send"
    /\ sendOut.err = "panic"
    /\ conn = "nil"
    /\ Locked # {}

====
